---------------------------- MODULE Spec2Model ----------------------------
(***************************************************************************)
(* Model of the image upload service of go-drawing-bed (src/main.go).      *)
(*                                                                         *)
(* The state is the process configuration set by init(), the static/ file  *)
(* tree, the server clock, and one record per in-flight uploadHandler      *)
(* invocation.  Each action is one step of uploadHandler between two I/O   *)
(* points: FormFile and the size check, Open, the 261 byte sniff read and  *)
(* the image check, the steps of SaveUploadedFile, the deferred Close and  *)
(* the return to the router.                                               *)
(*                                                                         *)
(* main.go holds two variants of the program; uploadHandler is the same in  *)
(* both, and the lines named here are those of the first.  The calls into  *)
(* gin, mime/multipart, os, io and filetype are modelled by what those      *)
(* libraries do: SaveUploadedFile opens the part again, makes the           *)
(* directories, creates (truncates) the file and copies the part into it.  *)
(*                                                                         *)
(* Strings are sequences of one-character strings, so that Sprintf and     *)
(* dst[1:] are computed and not assumed.  A file's content is a sequence   *)
(* of pieces [src, off, len]: len bytes of upload src starting at its      *)
(* offset off; an upload's bytes are its explicit leading bytes followed   *)
(* by a filler byte up to its size, so a 10 MiB body needs no 10 MiB       *)
(* tuple.                                                                  *)
(***************************************************************************)
EXTENDS Integers, Sequences, FiniteSets, TLC

\* ------------------------------------------------------------------ bounds
\* Handler invocations the router may have in flight at once.
NumHandlers == 2
\* Requests received in one run.
MaxRequests == 2
\* I/O faults injected in one run.
MaxFaults == 1

\* --------------------------------------------------------------- constants
\* const MaxFileSize = 10 << 20
MaxFileSize == 10485760
\* head := make([]byte, 261)
SniffLen == 261
\* the buffer io.Copy moves the upload through, inside SaveUploadedFile
CopyBuf == 32768

Min(a, b) == IF a < b THEN a ELSE b

\* ----------------------------------------------------------------- strings
Digits == <<"0","1","2","3","4","5","6","7","8","9">>

RECURSIVE Itoa(_)
\* fmt's %d of a non-negative int
Itoa(n) ==
    IF n < 10 THEN <<Digits[n + 1]>>
    ELSE Itoa(n \div 10) \o <<Digits[(n % 10) + 1]>>

Slash == <<"/">>
StaticRoot == <<".","/","s","t","a","t","i","c">>
DefaultPort == <<"8","0","8","0">>
LocalPrefix == <<"h","t","t","p",":","/","/","1","2","7",".","0",".","0",".","1",":">>

\* The .env files the process may start from: PORT and URL, each possibly empty.
Envs ==
    { [PORT |-> <<"9","0","9","0">>, URL |-> <<>>],
      [PORT |-> <<>>, URL |-> <<"h","t","t","p","s",":","/","/","i",".","i","o">>] }

\* A .env file that sets neither.
EmptyEnv == [PORT |-> <<>>, URL |-> <<>>]

\* init(): Port defaults to 8080, Url to http://127.0.0.1:<Port>
InitUrl(env) ==
    LET port == IF env.PORT = <<>> THEN DefaultPort ELSE env.PORT
    IN  IF env.URL = <<>> THEN LocalPrefix \o port ELSE env.URL

\* ------------------------------------------------------------------- clock
\* The dates time.Now() passes through, in order.
Dates ==
    << [year |-> 2024, month |-> 3,  day |-> 5],
       [year |-> 2024, month |-> 12, day |-> 31],
       [year |-> 2025, month |-> 1,  day |-> 1] >>

\* ----------------------------------------------------------------- uploads
NoFile == 0
Hole == -1

PicPng == <<"p","i","c",".","p","n","g">>
AGif == <<"a",".","g","i","f">>
NotesTxt == <<"n","o","t","e","s",".","t","x","t">>

\* The multipart file parts clients send.  head: the explicit leading bytes;
\* fill: the value of every later byte; size: FileHeader.Size; disk: the
\* multipart reader spooled the part to a temporary file, as it does once
\* the form has used up MaxMultipartMemory (always so for a part above it),
\* and kept it in memory otherwise; img: whether the body is an image.
UploadTable ==
    << [name |-> PicPng,   head |-> <<137,80,78,71,13,10,26,10>>, fill |-> 1,
        size |-> 100, disk |-> FALSE, img |-> TRUE],
       [name |-> PicPng,   head |-> <<71,73,70,56,57,97>>, fill |-> 0,
        size |-> 6, disk |-> TRUE, img |-> TRUE],
       [name |-> NotesTxt, head |-> <<>>, fill |-> 0,
        size |-> 10, disk |-> FALSE, img |-> FALSE],
       [name |-> AGif,     head |-> <<>>, fill |-> 0,
        size |-> 0, disk |-> FALSE, img |-> FALSE],
       [name |-> PicPng,   head |-> <<255,216,255,224>>, fill |-> 7,
        size |-> 40000, disk |-> FALSE, img |-> TRUE],
       [name |-> AGif,     head |-> <<66,77>>, fill |-> 2,
        size |-> MaxFileSize, disk |-> TRUE, img |-> TRUE],
       [name |-> PicPng,   head |-> <<137,80,78,71>>, fill |-> 3,
        size |-> MaxFileSize + 1, disk |-> TRUE, img |-> TRUE],
       [name |-> AGif,     head |-> <<37,80,68,70>>, fill |-> 4,
        size |-> 11000000, disk |-> TRUE, img |-> FALSE],
       [name |-> AGif,     head |-> <<255,216,255,225>>, fill |-> 5,
        size |-> MaxFileSize - 1, disk |-> TRUE, img |-> TRUE],
       [name |-> NotesTxt, head |-> <<104,105,10>>, fill |-> 32,
        size |-> 300, disk |-> FALSE, img |-> FALSE] >>

Uploads == 1..Len(UploadTable)
Requests == {NoFile} \cup Uploads
\* The images of at most two copy rounds.
StoredUploads == {u \in Uploads : UploadTable[u].img /\ UploadTable[u].size <= 2 * CopyBuf}

\* The longest explicit head: beyond it every body is its filler byte.
HeadMax ==
    CHOOSE m \in {Len(UploadTable[u].head) : u \in Uploads} :
        \A u \in Uploads : Len(UploadTable[u].head) <= m

\* Byte i (1-based) of upload u's body.
ByteAt(u, i) ==
    IF i <= Len(UploadTable[u].head) THEN UploadTable[u].head[i]
    ELSE UploadTable[u].fill

\* Byte at 0-based offset i of a piece source: a hole reads as zero.
SrcByte(q, i) == IF q = Hole THEN 0 ELSE ByteAt(q, i + 1)

SrcFill(q) == IF q = Hole THEN 0 ELSE UploadTable[q].fill

\* One round of io.Copy(out, src) from offset pos: a part kept in memory is
\* moved through the CopyBuf buffer, a part in a temporary file is copied
\* file to file in one call.
CopyLen(u, pos) ==
    IF UploadTable[u].disk THEN UploadTable[u].size - pos
    ELSE Min(CopyBuf, UploadTable[u].size - pos)

\* file.Read(head) on a stream at position pos: the number of bytes read.
ReadLen(u, pos) == Min(SniffLen, UploadTable[u].size - pos)

\* head after file.Read(head) at position 0: the bytes read, then the zeros
\* make([]byte, 261) left there.
ReadBuf(u) ==
    [i \in 1..SniffLen |->
        IF i <= UploadTable[u].size THEN ByteAt(u, i) ELSE 0]

\* -------------------------------------------------- filetype.IsImage(head)
Jpeg(b) == Len(b) > 2 /\ b[1] = 255 /\ b[2] = 216 /\ b[3] = 255
Png(b) == Len(b) > 3 /\ b[1] = 137 /\ b[2] = 80 /\ b[3] = 78 /\ b[4] = 71
Gif(b) == Len(b) > 2 /\ b[1] = 71 /\ b[2] = 73 /\ b[3] = 70
Webp(b) == Len(b) > 11 /\ b[9] = 87 /\ b[10] = 69 /\ b[11] = 66 /\ b[12] = 80
Bmp(b) == Len(b) > 1 /\ b[1] = 66 /\ b[2] = 77
Ico(b) == Len(b) > 3 /\ b[1] = 0 /\ b[2] = 0 /\ b[3] = 1 /\ b[4] = 0
Psd(b) == Len(b) > 3 /\ b[1] = 56 /\ b[2] = 66 /\ b[3] = 80 /\ b[4] = 83
Jxr(b) == Len(b) > 2 /\ b[1] = 73 /\ b[2] = 73 /\ b[3] = 188
Tiff(b) ==
    /\ Len(b) > 10
    /\ \/ b[1] = 73 /\ b[2] = 73 /\ b[3] = 42 /\ b[4] = 0
       \/ b[1] = 77 /\ b[2] = 77 /\ b[3] = 0 /\ b[4] = 42

IsImage_any(b) == TRUE

IsImage(b) ==
    Jpeg(b) \/ Png(b) \/ Gif(b) \/ Webp(b) \/ Bmp(b) \/ Ico(b) \/ Psd(b)
        \/ Jxr(b) \/ Tiff(b)

\* ------------------------------------------------------------------- paths
DateDir(now) ==
    StaticRoot \o Slash \o Itoa(Dates[now].year)
        \o Slash \o Itoa(Dates[now].month)
        \o Slash \o Itoa(Dates[now].day)

Pad2(n) == IF n < 10 THEN <<"0">> \o Itoa(n) ELSE Itoa(n)

Dst_padded(now, fileName) ==
    StaticRoot \o Slash \o Itoa(Dates[now].year)
        \o Slash \o Pad2(Dates[now].month)
        \o Slash \o Pad2(Dates[now].day) \o Slash \o fileName

\* fmt.Sprintf("./static/%d/%d/%d/%s", now.Year(), int(now.Month()), now.Day(), fileName)
Dst(now, fileName) == DateDir(now) \o Slash \o fileName

\* Url + dst[1:]
PublicUrl(url, dst) == url \o SubSeq(dst, 2, Len(dst))

RECURSIVE LastSlash(_)
\* The index of the last "/" of p, 0 when it has none.
LastSlash(p) ==
    IF p = <<>> THEN 0
    ELSE IF p[Len(p)] = "/" THEN Len(p)
    ELSE LastSlash(SubSeq(p, 1, Len(p) - 1))

\* filepath.Dir(p), for a p that holds a "/"
DirName(p) == SubSeq(p, 1, LastSlash(p) - 1)

RECURSIVE AllDirs(_)
\* os.MkdirAll(d): d and every parent of it below the working directory.
AllDirs(d) ==
    IF LastSlash(d) = 0 THEN {}
    ELSE {d} \cup AllDirs(DirName(d))

\* ------------------------------------------------------------ file content
Piece(q, o, n) == [src |-> q, off |-> o, len |-> n]

RECURSIVE FileLen(_)
FileLen(f) == IF f = <<>> THEN 0 ELSE f[1].len + FileLen(Tail(f))

RECURSIVE TakeBytes(_, _)
\* The first k bytes of f, zero filled when f is shorter.
TakeBytes(f, k) ==
    IF k = 0 THEN <<>>
    ELSE IF f = <<>> THEN <<Piece(Hole, 0, k)>>
    ELSE IF f[1].len <= k THEN <<f[1]>> \o TakeBytes(Tail(f), k - f[1].len)
    ELSE <<Piece(f[1].src, f[1].off, k)>>

RECURSIVE DropBytes(_, _)
\* f without its first k bytes.
DropBytes(f, k) ==
    IF f = <<>> THEN <<>>
    ELSE IF k = 0 THEN f
    ELSE IF f[1].len <= k THEN DropBytes(Tail(f), k - f[1].len)
    ELSE <<Piece(f[1].src,
                 IF f[1].src = Hole THEN 0 ELSE f[1].off + k,
                 f[1].len - k)>> \o Tail(f)

Joins(a, b) ==
    a.src = b.src /\ (a.src = Hole \/ a.off + a.len = b.off)

RECURSIVE Normalize(_)
\* Adjacent pieces that continue one another are one piece.
Normalize(f) ==
    IF Len(f) < 2 THEN f
    ELSE IF Joins(f[1], f[2])
         THEN Normalize(<<Piece(f[1].src, f[1].off, f[1].len + f[2].len)>>
                            \o SubSeq(f, 3, Len(f)))
         ELSE <<f[1]>> \o Normalize(Tail(f))

WriteAt_append(f, at, p) == Normalize(f \o <<p>>)

\* write(2) of piece p at file offset at.
WriteAt(f, at, p) ==
    Normalize(TakeBytes(f, at) \o <<p>> \o DropBytes(f, at + p.len))

Truncate_keep(f) == f

\* os.Create opens with O_TRUNC.
Truncate(f) == <<>>

SrcStart_sniffed(pos) == pos

\* file.Open() inside SaveUploadedFile returns a new reader at offset 0,
\* whatever the position of the handler's own stream.
SrcStart(pos) == 0

\* ------------------------------------------------------------------- state
VARIABLES
    Url,      \* the URL prefix init() left in the global Url
    clock,    \* index into Dates of the server's current date
    alive,    \* the process is running
    hs,       \* one record per handler slot: the locals of uploadHandler
    fs,       \* the files under static/: path -> content
    dirs,     \* the directories under static/
    saves,    \* per stored path, the record of the saves made to it
    served,   \* requests received so far
    faults,   \* I/O faults injected so far
    panics    \* panics the router recovered from so far

vars == <<Url, clock, alive, hs, fs, dirs, saves, served, faults, panics>>

Handlers == 1..NumHandlers

\* The locals of an invocation that has not started.
IdleH ==
    [pc |-> "idle", req |-> NoFile, file |-> "none", pos |-> 0,
     fileName |-> <<>>, now |-> 0, dst |-> <<>>,
     src |-> "none", srcPos |-> 0, out |-> "none", outOff |-> 0,
     resp |-> <<>>, site |-> "", opens |-> 0, touched |-> FALSE,
     closeErr |-> FALSE, recvClock |-> 0, recvPanics |-> 0]

NoSave == [active |-> 0, writers |-> {}, failed |-> FALSE, ok |-> <<>>]

\* context.JSON(status, gin.H{...})
Json(status, error, name, url) ==
    [status |-> status, error |-> error, name |-> name, url |-> url]

ErrNoFile == "http: no such file"
ErrEOF == "EOF"
MsgTooLarge == "compress the image to at most 10MB"
MsgNotImage == "only image uploads are allowed"

StatusOf_swapped(site) ==
    CASE site = "formfile" -> 400
      [] site = "size" -> 400
      [] site = "open" -> 500
      [] site = "read" -> 500
      [] site = "type" -> 400
      [] site = "save" -> 500
      [] OTHER -> 200

\* The status each return of uploadHandler writes.
StatusOf(site) ==
    CASE site = "formfile" -> 500
      [] site = "size" -> 400
      [] site = "open" -> 500
      [] site = "read" -> 500
      [] site = "type" -> 400
      [] site = "save" -> 500
      [] OTHER -> 200

ReturnPc_leaky(site) ==
    IF site \in {"formfile", "size", "open", "type"} THEN "ret" ELSE "defer"

\* Where a return leads: the deferred Close runs once it is registered,
\* that is on every return after upload.Open() succeeded.
ReturnPc(site) ==
    IF site \in {"formfile", "size", "open"} THEN "ret" ELSE "defer"

TooLarge_lax(size) == size > MaxFileSize + 1

\* upload.Size > MaxFileSize
TooLarge(size) == size > MaxFileSize

RecoveryInstalled_none == FALSE

\* gin.Default() installs the Recovery middleware.
RecoveryInstalled == TRUE

\* context.JSON(status, gin.H{"error": text}); return
Fail(h, site, text) ==
    [hs EXCEPT ![h].resp = Append(@, Json(StatusOf(site), text, <<>>, <<>>)),
               ![h].site = site,
               ![h].pc = ReturnPc(site)]

\* Whether the next I/O call may fail.
FaultChoices == IF faults < MaxFaults THEN BOOLEAN ELSE {FALSE}

Inject(fail) == faults' = IF fail THEN faults + 1 ELSE faults

AllIdle == \A h \in Handlers : hs[h].pc = "idle"

Init ==
    /\ Url \in {InitUrl(env) : env \in Envs \cup {EmptyEnv}}
    /\ clock = 1
    /\ alive = TRUE
    /\ hs = [h \in Handlers |-> IdleH]
    /\ fs = <<>>
    /\ dirs = {}
    /\ saves = <<>>
    /\ served = 0
    /\ faults = 0
    /\ panics = 0

\* ------------------------------------------------------------ fs updates
Content(p) == IF p \in DOMAIN fs THEN fs[p] ELSE <<>>
SaveRec(p) == IF p \in DOMAIN saves THEN saves[p] ELSE NoSave

PutFile(p, f) == [q \in DOMAIN fs \cup {p} |-> IF q = p THEN f ELSE fs[q]]
PutSave(p, r) == [q \in DOMAIN saves \cup {p} |-> IF q = p THEN r ELSE saves[q]]

\* ----------------------------------------------------------------- actions
\* The router hands request r to a free handler slot (the lowest: the slots
\* are interchangeable).
Receive(h, r) ==
    /\ alive
    /\ hs[h].pc = "idle"
    /\ \A g \in Handlers : g < h => hs[g].pc # "idle"
    /\ served < MaxRequests
    /\ hs' = [hs EXCEPT ![h] = [IdleH EXCEPT !.pc = "formfile", !.req = r,
                                             !.recvClock = clock,
                                             !.recvPanics = panics]]
    /\ served' = served + 1
    /\ UNCHANGED <<Url, clock, alive, fs, dirs, saves, faults, panics>>

\* upload, err := context.FormFile("file"), then the size check.
FormFile(h) ==
    /\ alive
    /\ hs[h].pc = "formfile"
    /\ hs' = IF hs[h].req = NoFile
                THEN Fail(h, "formfile", ErrNoFile)
             ELSE IF TooLarge(UploadTable[hs[h].req].size)
                THEN Fail(h, "size", MsgTooLarge)
             ELSE [hs EXCEPT ![h].pc = "open"]
    /\ UNCHANGED <<Url, clock, alive, fs, dirs, saves, served, faults, panics>>

\* file, err := upload.Open(), and the defer of file.Close()
Open(h) ==
    /\ alive
    /\ hs[h].pc = "open"
    /\ \E fail \in FaultChoices :
        /\ Inject(fail)
        /\ hs' = IF fail
                    THEN Fail(h, "open", "open: i/o error")
                    ELSE [hs EXCEPT ![h].file = "open", ![h].pos = 0,
                                    ![h].opens = @ + 1, ![h].pc = "sniff"]
    /\ UNCHANGED <<Url, clock, alive, fs, dirs, saves, served, panics>>

\* _, err = file.Read(head); filetype.IsImage(head); fileName, now, dst
Sniff(h) ==
    /\ alive
    /\ hs[h].pc = "sniff"
    /\ \E fail \in FaultChoices :
        /\ Inject(fail)
        /\ LET u == hs[h].req
               n == ReadLen(u, hs[h].pos)
           IN  hs' = IF fail
                        THEN Fail(h, "read", "read: i/o error")
                     ELSE IF n = 0
                        THEN Fail(h, "read", ErrEOF)
                     ELSE IF ~IsImage(ReadBuf(u))
                        THEN [Fail(h, "type", MsgNotImage) EXCEPT ![h].pos = @ + n]
                     ELSE [hs EXCEPT ![h].pos = @ + n,
                                     ![h].fileName = UploadTable[u].name,
                                     ![h].now = clock,
                                     ![h].dst = Dst(clock, UploadTable[u].name),
                                     ![h].pc = "save_open"]
    /\ UNCHANGED <<Url, clock, alive, fs, dirs, saves, served, panics>>

\* SaveUploadedFile: src, err := file.Open()
SaveOpen(h) ==
    /\ alive
    /\ hs[h].pc = "save_open"
    /\ \E fail \in FaultChoices :
        /\ Inject(fail)
        /\ hs' = IF fail
                    THEN Fail(h, "save", "open: i/o error")
                    ELSE [hs EXCEPT ![h].src = "open",
                                    ![h].srcPos = SrcStart(hs[h].pos),
                                    ![h].pc = "save_mkdir"]
    /\ UNCHANGED <<Url, clock, alive, fs, dirs, saves, served, panics>>

\* SaveUploadedFile: os.MkdirAll(filepath.Dir(dst), 0750)
SaveMkdir(h) ==
    /\ alive
    /\ hs[h].pc = "save_mkdir"
    /\ \E fail \in FaultChoices :
        /\ Inject(fail)
        /\ IF fail
              THEN /\ hs' = [Fail(h, "save", "mkdir: i/o error") EXCEPT ![h].src = "closed"]
                   /\ dirs' = dirs
              ELSE /\ hs' = [hs EXCEPT ![h].touched = TRUE, ![h].pc = "save_create"]
                   /\ dirs' = dirs \cup AllDirs(DirName(hs[h].dst))
    /\ UNCHANGED <<Url, clock, alive, fs, saves, served, panics>>

\* SaveUploadedFile: out, err := os.Create(dst)
SaveCreate(h) ==
    /\ alive
    /\ hs[h].pc = "save_create"
    /\ \E fail \in FaultChoices :
        /\ Inject(fail)
        /\ IF fail
              THEN /\ hs' = [Fail(h, "save", "create: i/o error") EXCEPT ![h].src = "closed"]
                   /\ UNCHANGED <<fs, saves>>
              ELSE LET p == hs[h].dst
                       r == SaveRec(p)
                   IN  /\ hs' = [hs EXCEPT ![h].out = "open", ![h].outOff = 0,
                                           ![h].touched = TRUE,
                                           ![h].pc = "save_copy"]
                       /\ fs' = PutFile(p, Truncate(Content(p)))
                       /\ saves' = PutSave(p,
                              IF r.active = 0
                                THEN [r EXCEPT !.active = 1, !.failed = FALSE,
                                               !.writers = {hs[h].req}]
                                ELSE [r EXCEPT !.active = @ + 1,
                                               !.writers = @ \cup {hs[h].req}])
    /\ UNCHANGED <<Url, clock, alive, dirs, served, panics>>

\* SaveUploadedFile: one round of io.Copy(out, src), a read and its write
SaveCopy(h) ==
    /\ alive
    /\ hs[h].pc = "save_copy"
    /\ hs[h].srcPos < UploadTable[hs[h].req].size
    /\ \E fail \in FaultChoices :
        /\ Inject(fail)
        /\ LET p == hs[h].dst
               u == hs[h].req
               n == CopyLen(u, hs[h].srcPos)
           IN  IF fail
                 THEN /\ hs' = [Fail(h, "save", "write: i/o error")
                                    EXCEPT ![h].src = "closed", ![h].out = "closed"]
                      /\ fs' = fs
                      /\ saves' = PutSave(p, [SaveRec(p) EXCEPT !.active = @ - 1,
                                                                !.failed = TRUE])
                 ELSE /\ hs' = [hs EXCEPT ![h].srcPos = @ + n, ![h].outOff = @ + n]
                      /\ fs' = PutFile(p, WriteAt(Content(p), hs[h].outOff,
                                                  Piece(u, hs[h].srcPos, n)))
                      /\ saves' = saves
    /\ UNCHANGED <<Url, clock, alive, dirs, served, panics>>

\* SaveUploadedFile returns nil at end of data; context.JSON(http.StatusOK, ...)
SaveDone(h) ==
    /\ alive
    /\ hs[h].pc = "save_copy"
    /\ hs[h].srcPos >= UploadTable[hs[h].req].size
    /\ LET p == hs[h].dst
       IN  /\ hs' = [hs EXCEPT
                        ![h].src = "closed", ![h].out = "closed",
                        ![h].resp = Append(@, Json(StatusOf("ok"), "",
                                                   hs[h].fileName,
                                                   PublicUrl(Url, hs[h].dst))),
                        ![h].site = "ok",
                        ![h].pc = ReturnPc("ok")]
           /\ saves' = PutSave(p, [SaveRec(p) EXCEPT !.active = @ - 1,
                                                     !.ok = Append(@, hs[h].req)])
    /\ UNCHANGED <<Url, clock, alive, fs, dirs, served, faults, panics>>

\* The deferred func: err := file.Close(); if err != nil { panic(err) }
Close(h) ==
    /\ alive
    /\ hs[h].pc = "defer"
    /\ \E fail \in (IF UploadTable[hs[h].req].disk THEN FaultChoices ELSE {FALSE}) :
        /\ Inject(fail)
        /\ hs' = [hs EXCEPT ![h].file = "closed",
                            ![h].closeErr = fail,
                            ![h].pc = IF fail THEN "panic" ELSE "ret"]
    /\ UNCHANGED <<Url, clock, alive, fs, dirs, saves, served, panics>>

\* The panic unwinds uploadHandler into the router built by gin.Default().
Recover(h) ==
    /\ alive
    /\ hs[h].pc = "panic"
    /\ IF RecoveryInstalled
          THEN /\ hs' = [hs EXCEPT
                            ![h].resp = IF @ = <<>>
                                          THEN <<Json(500, "", <<>>, <<>>)>>
                                          ELSE @,
                            ![h].pc = "ret"]
               /\ panics' = panics + 1
               /\ alive' = alive
          ELSE /\ hs' = [g \in Handlers |-> [hs[g] EXCEPT !.pc = "killed"]]
               /\ panics' = panics
               /\ alive' = FALSE
    /\ UNCHANGED <<Url, clock, fs, dirs, saves, served, faults>>

\* uploadHandler has returned and the response is sent: the slot is free.
Return(h) ==
    /\ alive
    /\ hs[h].pc = "ret"
    /\ hs' = [hs EXCEPT ![h] = IdleH]
    /\ UNCHANGED <<Url, clock, alive, fs, dirs, saves, served, faults, panics>>

\* The server's date moves on.
Tick ==
    /\ alive
    /\ clock < Len(Dates)
    /\ clock' = clock + 1
    /\ UNCHANGED <<Url, alive, hs, fs, dirs, saves, served, faults, panics>>

\* ---------------------------------------------------------- specifications
\* One request at a time, any upload.
ReceiveOne == \E h \in Handlers, r \in Requests : AllIdle /\ Receive(h, r)

\* Requests in parallel, each a small image.
ReceiveAny == \E h \in Handlers, r \in StoredUploads : Receive(h, r)

Step ==
    \E h \in Handlers :
        \/ FormFile(h)
        \/ Open(h)
        \/ Sniff(h)
        \/ SaveOpen(h)
        \/ SaveMkdir(h)
        \/ SaveCreate(h)
        \/ SaveCopy(h)
        \/ SaveDone(h)
        \/ Close(h)
        \/ Recover(h)
        \/ Return(h)

Next == Tick \/ ReceiveOne \/ Step

NextConc == ReceiveAny \/ Step

Spec == Init /\ [][Next]_vars

\* The process started from an empty .env file.
InitConc == Init /\ Url = InitUrl(EmptyEnv)

\* Requests served in parallel within one day.
SpecConc == InitConc /\ [][NextConc]_vars

\* ------------------------------------------------------ reading the state
\* The request handler h is serving.
Upl(h) == UploadTable[hs[h].req]

HasFile(h) == hs[h].pc # "idle" /\ hs[h].req # NoFile

\* uploadHandler has written its response.
Responded(h) == hs[h].pc \in {"defer", "panic", "ret"}

\* uploadHandler has returned to the router.
Returned(h) == hs[h].pc = "ret"

StatusIs(h, code) == Len(hs[h].resp) = 1 /\ hs[h].resp[1].status = code

\* n bytes of source q from offset qo equal n bytes of upload u from offset uo.
RangeEq(q, qo, u, uo, n) ==
    /\ \A k \in 0..(Min(n, HeadMax) - 1) : SrcByte(q, qo + k) = SrcByte(u, uo + k)
    /\ n > HeadMax => SrcFill(q) = SrcFill(u)

RECURSIVE PiecesMatch(_, _, _)
\* The content f, placed at offset start, reads as upload u does there.
PiecesMatch(f, start, u) ==
    \/ f = <<>>
    \/ /\ RangeEq(f[1].src, f[1].off, u, start, f[1].len)
       /\ PiecesMatch(Tail(f), start + f[1].len, u)

\* The content f is byte for byte the whole body of upload u.
SameBytes(f, u) == FileLen(f) = UploadTable[u].size /\ PiecesMatch(f, 0, u)

RECURSIVE InPlace(_, _, _)
\* Every byte of f, placed at offset start, is the byte some upload of us
\* has at that offset, or the zero of a hole.
InPlace(f, start, us) ==
    \/ f = <<>>
    \/ /\ \/ f[1].src = Hole
          \/ f[1].src \in us /\ f[1].off = start
       /\ InPlace(Tail(f), start + f[1].len, us)

\* "./static/<year>/<month>/<day>/" for each date of Dates, written out.
ExpectedDir ==
    << <<".","/","s","t","a","t","i","c","/","2","0","2","4","/","3","/","5","/">>,
       <<".","/","s","t","a","t","i","c","/","2","0","2","4","/","1","2","/","3","1","/">>,
       <<".","/","s","t","a","t","i","c","/","2","0","2","5","/","1","/","1","/">> >>

\* The same without the leading ".".
ExpectedUrlDir ==
    << <<"/","s","t","a","t","i","c","/","2","0","2","4","/","3","/","5","/">>,
       <<"/","s","t","a","t","i","c","/","2","0","2","4","/","1","2","/","3","1","/">>,
       <<"/","s","t","a","t","i","c","/","2","0","2","5","/","1","/","1","/">> >>

\* --------------------------------------------------------------------- C1
\* C1: an upload under 10 MiB whose head is an image signature, with no
\* failure of open, read or save, is answered 200, is stored at
\* ./static/<year>/<month>/<day>/<filename> for the server's date during the
\* request, month and day without leading zero and the filename as given,
\* and the response carries name = filename and url = Url + that path
\* without its leading ".".
C1_StoredAtDatedPath ==
    \A h \in Handlers :
        ( /\ Returned(h) /\ HasFile(h)
          /\ Upl(h).size < MaxFileSize
          /\ Upl(h).img
          /\ hs[h].site \notin {"open", "read", "save"} )
        => /\ StatusIs(h, 200)
           /\ hs[h].now \in hs[h].recvClock..clock
           /\ hs[h].dst = ExpectedDir[hs[h].now] \o Upl(h).name
           /\ hs[h].dst \in DOMAIN fs
           /\ DirName(hs[h].dst) \in dirs
           /\ hs[h].resp[1].name = Upl(h).name
           /\ hs[h].resp[1].url = Url \o ExpectedUrlDir[hs[h].now] \o Upl(h).name

\* A 200 for an image stored on 2024-12-31, received the day before.
C1_Witness ==
    \E h \in Handlers :
        /\ Returned(h) /\ HasFile(h) /\ StatusIs(h, 200)
        /\ Upl(h).size < MaxFileSize
        /\ hs[h].now = 2 /\ hs[h].recvClock = 1

\* --------------------------------------------------------------------- C2
\* C2 as stated: an upload of declared size >= 10 MiB is answered 400, no
\* stream is opened for it and nothing under static/ is created or written.
C2_AtLeastLimitRejected ==
    \A h \in Handlers :
        ( /\ HasFile(h) /\ hs[h].pc # "formfile"
          /\ Upl(h).size >= MaxFileSize )
        => /\ hs[h].opens = 0
           /\ ~hs[h].touched
           /\ Returned(h) => StatusIs(h, 400)

\* C2 amended: an upload of declared size > 10 MiB is answered 400 with the
\* size message, no stream is opened for it and nothing under static/ is
\* created or written by its handler.
C2_OverLimitRejected ==
    \A h \in Handlers :
        ( /\ HasFile(h) /\ hs[h].pc # "formfile"
          /\ Upl(h).size > MaxFileSize )
        => /\ hs[h].opens = 0
           /\ hs[h].file = "none" /\ hs[h].src = "none" /\ hs[h].out = "none"
           /\ ~hs[h].touched
           /\ Responded(h)
           /\ StatusIs(h, 400)
           /\ hs[h].resp[1].error = MsgTooLarge

\* The 11 000 000 byte upload has been answered 400.
C2_Witness ==
    \E h \in Handlers :
        /\ Returned(h) /\ HasFile(h)
        /\ Upl(h).size = 11000000
        /\ StatusIs(h, 400)

\* --------------------------------------------------------------------- C3
\* C3: an upload whose sniffed head is not an image signature is answered
\* 400 with the image-only message, and its handler never reaches the save
\* step: it creates and writes nothing under static/.
C3_NonImageRejected ==
    \A h \in Handlers :
        ( /\ HasFile(h)
          /\ hs[h].pos > 0
          /\ ~Upl(h).img )
        => /\ ~hs[h].touched
           /\ hs[h].src = "none" /\ hs[h].out = "none"
           /\ hs[h].dst = <<>>
           /\ Responded(h)
           /\ StatusIs(h, 400)
           /\ hs[h].resp[1].error = MsgNotImage

\* The ten zero bytes have been answered 400 while a file is stored.
C3_Witness ==
    \E h \in Handlers :
        /\ Returned(h) /\ HasFile(h)
        /\ ~Upl(h).img /\ hs[h].pos = 10
        /\ StatusIs(h, 400)
        /\ DOMAIN fs # {}

\* --------------------------------------------------------------------- C4
\* C4: when two uploads with the same filename on the same date have both
\* succeeded, one after the other, the path holds one file and its content
\* is the body of the second.
C4_SecondUploadOverwrites ==
    \A p \in DOMAIN saves :
        ( /\ saves[p].active = 0
          /\ ~saves[p].failed
          /\ Len(saves[p].ok) >= 2 )
        => /\ p \in DOMAIN fs
           /\ SameBytes(fs[p], saves[p].ok[Len(saves[p].ok)])

\* The 6 byte GIF stored over the 100 byte PNG of the same name and date.
C4_Witness ==
    \E p \in DOMAIN saves :
        /\ saves[p].active = 0 /\ ~saves[p].failed
        /\ saves[p].ok = <<1, 2>>
        /\ AllIdle

\* --------------------------------------------------------------------- C5
\* C5: after a successful upload the stored file is the whole body from
\* byte 0, whatever the sniff read consumed.
C5_WholeBodyStored ==
    \A h \in Handlers :
        (Responded(h) /\ hs[h].site = "ok")
        => /\ hs[h].dst \in DOMAIN fs
           /\ SameBytes(fs[hs[h].dst], hs[h].req)
           /\ hs[h].pos = Min(SniffLen, Upl(h).size)

\* A stored body longer than the 261 bytes sniffed.
C5_Witness ==
    \E h \in Handlers :
        /\ Returned(h) /\ hs[h].site = "ok"
        /\ hs[h].pos = SniffLen
        /\ Upl(h).size > SniffLen
        /\ FileLen(fs[hs[h].dst]) = Upl(h).size

\* --------------------------------------------------------------------- C6
\* The error texts an I/O failure at each place reports.
IoErrors(site) ==
    CASE site = "open" -> {"open: i/o error"}
      [] site = "read" -> {"read: i/o error", ErrEOF}
      [] site = "save" -> {"open: i/o error", "mkdir: i/o error",
                           "create: i/o error", "write: i/o error"}
      [] OTHER -> {}

\* C6: an invocation writes exactly one response, and none before it has
\* decided: 500 with the error's text for a missing file field and for a
\* failed open, sniff read or save; 400 only for an oversize or a non-image
\* upload; 200 only after the save succeeded.
C6_OneTerminalResponse ==
    \A h \in Handlers :
        /\ ~Responded(h) => hs[h].resp = <<>>
        /\ Responded(h) =>
            /\ Len(hs[h].resp) = 1
            /\ LET r == hs[h].resp[1]
               IN  /\ r.status \in {200, 400, 500}
                   /\ hs[h].req = NoFile => r.status = 500 /\ r.error = ErrNoFile
                   /\ hs[h].site \in {"open", "read", "save"} =>
                        r.status = 500 /\ r.error \in IoErrors(hs[h].site)
                   /\ r.status = 500 =>
                        hs[h].req = NoFile \/ hs[h].site \in {"open", "read", "save"}
                   /\ r.status = 400 =>
                        /\ hs[h].req # NoFile
                        /\ \/ Upl(h).size > MaxFileSize /\ r.error = MsgTooLarge
                           \/ ~Upl(h).img /\ r.error = MsgNotImage
                   /\ r.status = 200 =>
                        /\ hs[h].req # NoFile
                        /\ hs[h].srcPos = Upl(h).size
                        /\ hs[h].out = "closed"
                        /\ SaveRec(hs[h].dst).ok # <<>>

\* A save that failed while writing has been answered 500.
C6_Witness ==
    \E h \in Handlers :
        /\ Returned(h) /\ StatusIs(h, 500)
        /\ hs[h].site = "save"
        /\ hs[h].resp[1].error = "write: i/o error"

\* --------------------------------------------------------------------- C7
\* C7: an invocation that opened the upload stream has closed it when it
\* returns, whichever return it took.
C7_StreamClosedOnReturn ==
    \A h \in Handlers :
        /\ Returned(h) /\ hs[h].opens > 0 => hs[h].file = "closed"
        /\ hs[h].pc = "idle" => hs[h].file = "none"
        /\ hs[h].opens <= 1

\* The non-image return, taken with the stream closed.
C7_Witness ==
    \E h \in Handlers :
        /\ Returned(h) /\ hs[h].opens = 1
        /\ hs[h].site = "type"
        /\ hs[h].file = "closed"

\* --------------------------------------------------------------------- C8
\* C8: for an upload shorter than 261 bytes the outcome is that of the
\* signature check of the bytes read; only a read that failed outright is
\* answered as a read error, a short or empty read never is.
C8_ShortReadIsNoError ==
    \A h \in Handlers :
        ( /\ Returned(h) /\ HasFile(h)
          /\ Upl(h).size < SniffLen
          /\ hs[h].site = "read" )
        => hs[h].resp[1].error = "read: i/o error"

\* --------------------------------------------------------------------- C9
\* Two saves of different uploads to path p overlapped and both succeeded.
BothSaved(p) ==
    /\ saves[p].active = 0
    /\ ~saves[p].failed
    /\ Cardinality(saves[p].writers) = 2

\* Every invocation that saved to p has returned.
NoneInside(p) == \A h \in Handlers : hs[h].dst = p => Returned(h)

\* C9 as stated: after two concurrent successful saves to one path the
\* file is the whole body of one of the two uploads, never a mixture.
C9_NeverAMixture ==
    \A p \in DOMAIN saves :
        (BothSaved(p) /\ NoneInside(p))
        => \E u \in saves[p].writers : SameBytes(fs[p], u)

\* C9 amended: after two concurrent successful saves to one path the file
\* has the length of one of the two uploads, and each of its bytes is the
\* byte one of the two uploads has at that offset, or a zero where one
\* save's truncation removed what the other had written before it.
C9_BytesOfEitherUpload ==
    \A p \in DOMAIN saves :
        BothSaved(p) =>
            /\ FileLen(fs[p]) \in {UploadTable[u].size : u \in saves[p].writers}
            /\ InPlace(fs[p], 0, saves[p].writers)

\* A stored file made of bytes of both uploads.
C9_Witness ==
    \E p \in DOMAIN saves :
        /\ BothSaved(p) /\ NoneInside(p)
        /\ {fs[p][i].src : i \in 1..Len(fs[p])} = saves[p].writers

\* -------------------------------------------------------------------- C10
\* C10 as stated: once the deferred Close has failed and its panic has left
\* uploadHandler, the process is gone and with it every other request.
C10_ClosePanicIsFatal ==
    \A h \in Handlers :
        (hs[h].closeErr /\ hs[h].pc # "panic")
        => /\ ~alive
           /\ \A g \in Handlers : hs[g].pc \in {"idle", "killed"}

\* C10 amended: the panic of a failed Close is recovered by the router:
\* the step that handles it leaves the process running, the response
\* already written as it is, and every other invocation untouched.
C10_ClosePanicIsRecovered ==
    [][ \A h \in Handlers :
          (hs[h].pc = "panic" /\ hs'[h].pc # "panic")
          => /\ alive'
             /\ hs'[h].pc = "ret"
             /\ hs'[h].resp = hs[h].resp
             /\ \A g \in Handlers \ {h} : hs'[g] = hs[g] ]_vars

\* A recovered panic next to another invocation that is copying its file.
C10_Witness ==
    \E h \in Handlers, g \in Handlers :
        /\ g # h
        /\ hs[h].closeErr /\ Returned(h)
        /\ alive /\ panics = 1
        /\ hs[g].pc = "save_copy"
=============================================================================
